---------------------------- MODULE Spec2Model ----------------------------
(***************************************************************************)
(* Model of the attribute-resolution engine of dnd-origins                 *)
(* (src/scripts/Generator/CharacterAttribute.js and its subclasses).       *)
(*                                                                         *)
(* JavaScript strings are sequences of one-character strings, so that the  *)
(* regular expressions of translateOutcome, String.replace, isNaN and      *)
(* parseInt are computed character by character.  JavaScript values are    *)
(* tagged records (Undef, False, NaN, Num(n), Str(s)); strict equality     *)
(* (===) on them is record equality, except that NaN equals nothing.       *)
(*                                                                         *)
(* The input alphabet holds no "$" (String.replace's replacement patterns),*)
(* no ".", and no exponent, hexadecimal or Infinity literal.               *)
(***************************************************************************)
EXTENDS Integers, Sequences, FiniteSets, TLC

(***************************************************************************)
(* Bounds of the model.                                                    *)
(***************************************************************************)
\* Depth of nested constructions at which the engine's call stack is exhausted.
MaxDepth == 4
\* rollModifier is drawn from -MaxMod..MaxMod.
MaxMod == 2

(***************************************************************************)
(* JavaScript values and conversions.                                      *)
(***************************************************************************)
Undef == [t |-> "undefined"]
False == [t |-> "false"]
NaN == [t |-> "NaN"]
Num(n) == [t |-> "number", n |-> n]
Str(s) == [t |-> "string", s |-> s]

Digits == <<"0", "1", "2", "3", "4", "5", "6", "7", "8", "9">>
IsDigit(c) == \E i \in 1..Len(Digits) : Digits[i] = c
DigitVal(c) == (CHOOSE i \in 1..Len(Digits) : Digits[i] = c) - 1
IsSpace(c) == c = " "

RECURSIVE NatToStr(_)
NatToStr(n) ==
    IF n < Len(Digits) THEN <<Digits[n + 1]>>
    ELSE NatToStr(n \div Len(Digits)) \o <<Digits[(n % Len(Digits)) + 1]>>

\* Number::toString for the integers.
IntToStr(n) == IF n < 0 THEN <<"-">> \o NatToStr(-n) ELSE NatToStr(n)

\* ToString(v), as String.replace applies it to its replacement argument.
ToStringJS(v) ==
    CASE v.t = "string" -> v.s
      [] v.t = "number" -> IntToStr(v.n)
      [] v.t = "NaN" -> <<"N", "a", "N">>
      [] v.t = "false" -> <<"f", "a", "l", "s", "e">>
      [] OTHER -> <<"u", "n", "d", "e", "f", "i", "n", "e", "d">>

\* ToBoolean(v).
Truthy(v) ==
    CASE v.t = "string" -> v.s # <<>>
      [] v.t = "number" -> v.n # 0
      [] v.t \in {"object", "function", "DiceRollResult"} -> TRUE
      [] OTHER -> FALSE

\* a === b.
StrictEq(a, b) == a.t # "NaN" /\ a = b

\* a >= b and a <= b on numbers; any comparison with undefined or NaN is false.
GeJS(a, b) == a.t = "number" /\ b.t = "number" /\ a.n >= b.n
LeJS(a, b) == a.t = "number" /\ b.t = "number" /\ a.n <= b.n

RECURSIVE SkipSpace(_, _)
\* Index of the first non-blank character of s at or after i (Len(s)+1 if none).
SkipSpace(s, i) ==
    IF i <= Len(s) /\ IsSpace(s[i]) THEN SkipSpace(s, i + 1) ELSE i

RECURSIVE DigitsEnd(_, _)
\* Index just after the run of digits of s that starts at i.
DigitsEnd(s, i) ==
    IF i <= Len(s) /\ IsDigit(s[i]) THEN DigitsEnd(s, i + 1) ELSE i

RECURSIVE DigitsVal(_, _, _)
\* Value of the digits s[i..j-1].
DigitsVal(s, i, j) ==
    IF j <= i THEN 0
    ELSE DigitsVal(s, i, j - 1) * Len(Digits) + DigitVal(s[j - 1])

RECURSIVE TrimEnd(_)
TrimEnd(s) ==
    IF s # <<>> /\ IsSpace(s[Len(s)]) THEN TrimEnd(SubSeq(s, 1, Len(s) - 1)) ELSE s

Trim(s) == LET i == SkipSpace(s, 1) IN TrimEnd(SubSeq(s, i, Len(s)))

\* Start of the digits of a signed numeral at i.
AfterSign(s, i) == IF i <= Len(s) /\ s[i] \in {"+", "-"} THEN i + 1 ELSE i
SignAt(s, i) == IF i <= Len(s) /\ s[i] = "-" THEN -1 ELSE 1

\* ToNumber of a string: blank is 0, a signed decimal integer is its value,
\* everything else NaN.
StringToNumber(s) ==
    LET u == Trim(s)
        d == AfterSign(u, 1)
        e == DigitsEnd(u, d)
    IN  IF u = <<>> THEN Num(0)
        ELSE IF e > d /\ e = Len(u) + 1 THEN Num(SignAt(u, 1) * DigitsVal(u, d, e))
        ELSE NaN

ToNumberJS(v) ==
    CASE v.t = "string" -> StringToNumber(v.s)
      [] v.t = "number" -> v
      [] v.t = "false" -> Num(0)
      [] OTHER -> NaN

\* The global isNaN(v).
IsNaNJS(v) == ToNumberJS(v).t = "NaN"

\* The global parseInt(v): leading blanks, an optional sign, the longest run
\* of digits; NaN when there is no digit.
ParseIntJS(v) ==
    LET s == ToStringJS(v)
        b == SkipSpace(s, 1)
        d == AfterSign(s, b)
        e == DigitsEnd(s, d)
    IN  IF e > d THEN Num(SignAt(s, b) * DigitsVal(s, d, e)) ELSE NaN

(***************************************************************************)
(* String.replace with a string pattern: the first occurrence.             *)
(***************************************************************************)
StartsAt(s, i, pat) ==
    /\ i + Len(pat) - 1 <= Len(s)
    /\ SubSeq(s, i, i + Len(pat) - 1) = pat

IndexOf(s, pat) ==
    IF \E i \in 1..Len(s) : StartsAt(s, i, pat)
    THEN CHOOSE i \in 1..Len(s) :
            StartsAt(s, i, pat) /\ \A j \in 1..(i - 1) : ~StartsAt(s, j, pat)
    ELSE 0

ReplaceStr(s, pat, rep) ==
    LET i == IndexOf(s, pat)
    IN  IF i = 0 THEN s
        ELSE SubSeq(s, 1, i - 1) \o rep \o SubSeq(s, i + Len(pat), Len(s))

(***************************************************************************)
(* The regular expressions of translateOutcome.                            *)
(***************************************************************************)
IsOpen(s, i) == StartsAt(s, i, <<"{", "{">>)
IsClose(s, i) == StartsAt(s, i, <<"}", "}">>)

\* /{{(.*?)}}/ anchored at i: index of the last character of the match, 0 if
\* it does not match there (the lazy group stops at the first "}}").
MarkerEnd(s, i) ==
    IF IsOpen(s, i) /\ \E j \in (i + 2)..Len(s) : IsClose(s, j)
    THEN 1 + CHOOSE j \in (i + 2)..Len(s) :
            IsClose(s, j) /\ \A k \in (i + 2)..(j - 1) : ~IsClose(s, k)
    ELSE 0

RECURSIVE GroupEnd(_, _)
\* /({{(.*?)}})+/ anchored at i: the greedy repetition swallows every marker
\* that directly follows the previous one.  0 if no match at i.
GroupEnd(s, i) ==
    LET e == MarkerEnd(s, i)
    IN  IF e = 0 THEN 0
        ELSE IF GroupEnd(s, e + 1) # 0 THEN GroupEnd(s, e + 1)
        ELSE e

RECURSIVE MatchAllFrom(_, _)
MatchAllFrom(s, i) ==
    IF i > Len(s) THEN <<>>
    ELSE IF GroupEnd(s, i) # 0
         THEN <<SubSeq(s, i, GroupEnd(s, i))>> \o MatchAllFrom(s, GroupEnd(s, i) + 1)
    ELSE MatchAllFrom(s, i + 1)

\* outcome.match(/({{(.*?)}})+/g); null (no match) is the empty list, over
\* which for..in iterates nothing.
MatchMarkers(s) == MatchAllFrom(s, 1)

\* matches[x].replace(/[{{}}]/g,'')
StripBraces(m) == SelectSeq(m, LAMBDA c : c \notin {"{", "}"})

\* Position of the first match of /{{(.*?)}}/ in s, 0 if none.
FirstMarker(s) ==
    IF \E i \in 1..Len(s) : MarkerEnd(s, i) # 0
    THEN CHOOSE i \in 1..Len(s) :
            MarkerEnd(s, i) # 0 /\ \A j \in 1..(i - 1) : MarkerEnd(s, j) = 0
    ELSE 0

\* outcome.replace(/{{(.*?)}}/, replacement)
ReplaceFirstMarker(s, replacement) ==
    LET i == FirstMarker(s)
    IN  IF i = 0 THEN s
        ELSE SubSeq(s, 1, i - 1) \o ToStringJS(replacement)
                \o SubSeq(s, MarkerEnd(s, i) + 1, Len(s))

(***************************************************************************)
(* The Dice Roller (external library; its contract is section 4.1 of the   *)
(* specification): <count>d<faces>[+|-<modifier>].                         *)
(***************************************************************************)
DiceD(e) == DigitsEnd(e, 1)
DiceF(e) == DigitsEnd(e, DiceD(e) + 1)
DiceM(e) == DigitsEnd(e, DiceF(e) + 1)

DiceValid(e) ==
    /\ DiceD(e) > 1
    /\ DiceD(e) <= Len(e) /\ e[DiceD(e)] = "d"
    /\ DiceF(e) > DiceD(e) + 1
    /\ \/ DiceF(e) = Len(e) + 1
       \/ /\ e[DiceF(e)] \in {"+", "-"}
          /\ DiceM(e) > DiceF(e) + 1
          /\ DiceM(e) = Len(e) + 1

DiceCount(e) == DigitsVal(e, 1, DiceD(e))
DiceFaces(e) == DigitsVal(e, DiceD(e) + 1, DiceF(e))
\* The signed modifier of a valid expression (0 when it has none).
DiceModifier(e) ==
    IF DiceF(e) = Len(e) + 1 THEN 0
    ELSE SignAt(e, DiceF(e)) * DigitsVal(e, DiceF(e) + 1, DiceM(e))

\* The totals Dice.roll(e) can return: count dice of 1..faces plus the modifier.
DiceTotals(e) ==
    (DiceCount(e) + DiceModifier(e))..(DiceCount(e) * DiceFaces(e) + DiceModifier(e))

\* The DiceRollResult (its individual dice are not modelled).
DiceRollResult(total) == [t |-> "DiceRollResult", total |-> total]

(***************************************************************************)
(* The Table Store (the global TABLES; its data is not part of the source, *)
(* the rows below follow section 3 and the scenarios of section 8).        *)
(***************************************************************************)
Random == <<"r", "a", "n", "d", "o", "m">>
K_race == <<"r", "a", "c", "e">>
K_raceFull == <<"r", "a", "c", "e", "-", "f", "u", "l", "l">>
K_lifeEvents == <<"l", "i", "f", "e", "-", "e", "v", "e", "n", "t", "s">>
K_relationship == <<"r", "e", "l", "a", "t", "i", "o", "n", "s", "h", "i", "p">>
K_background == <<"b", "a", "c", "k", "g", "r", "o", "u", "n", "d">>
K_memory == <<"m", "e", "m", "o", "r", "y">>
K_status == <<"s", "t", "a", "t", "u", "s">>
K_siblings == <<"s", "i", "b", "l", "i", "n", "g", "s">>
K_ab == <<"a", "b">>
K_a == <<"a">>
K_b == <<"b">>
K_mix == <<"m", "i", "x">>
Extra == <<"e", "x", "t", "r", "a">>
Mod == <<"M", "O", "D">>

\* A row of a table; absent properties are undefined.
Row(outcome, min, max, translate, extra) ==
    [outcome |-> outcome, min |-> min, max |-> max,
     translate |-> translate, extra |-> extra]
Plain(text) == Row(Str(text), Undef, Undef, Undef, Undef)
Ranged(text, min, max) == Row(Str(text), Num(min), Num(max), Undef, Undef)
\* The one extra-text function of the store: the length of its argument.
ExtraLen == [t |-> "function", id |-> "len"]

TableStore ==
    (K_race :> [roll |-> <<"1", "d", "4">>,
                outcomes |-> <<Ranged(<<"H", "u", "m", "a", "n">>, 1, 2),
                               Ranged(<<"E", "l", "f">>, 3, 4)>>]) @@
    (K_raceFull :> [roll |-> Random,
                    outcomes |-> <<Plain(<<"H", "u", "m", "a", "n">>),
                                   Plain(<<"E", "l", "f">>),
                                   Plain(<<"O", "r", "c">>)>>]) @@
    (K_lifeEvents :> [roll |-> <<"1", "d", "4">>,
                      outcomes |-> <<
                        Row(Str(<<"m", "e", "t">>), Num(1), Num(2),
                            Str(<<"a", " ", "{", "{", "r", "e", "l", "a", "t", "i", "o", "n", "s", "h", "i", "p", "}", "}", "!">>), Undef),
                        Row(Str(<<"w", "o", "n">>), Num(3), Num(4),
                            Str(<<"{", "{", "1", "d", "4", "}", "}", " ", "{", "{", "e", "x", "t", "r", "a", "}", "}">>), ExtraLen)>>]) @@
    (K_relationship :> [roll |-> Random,
                        outcomes |-> <<Plain(<<"F", "r", "i", "e", "n", "d">>),
                                       Plain(<<"R", "i", "v", "a", "l">>),
                                       Plain(<<"S", "t", "r", "a", "n", "g", "e", "r">>)>>]) @@
    (K_background :> [roll |-> <<"1", "d", "1", "0", "0">>,
                      outcomes |-> <<Ranged(<<"P", "e", "a", "s", "a", "n", "t">>, 1, 50),
                                     Ranged(<<"N", "o", "b", "l", "e">>, 51, 100)>>]) @@
    (K_memory :> [roll |-> <<"1", "d", "6", "+", "M", "O", "D">>,
                  outcomes |-> <<Ranged(<<"B", "a", "d">>, 1, 3),
                                 Ranged(<<"G", "o", "o", "d">>, 4, 6)>>]) @@
    (K_status :> [roll |-> <<"1", "d", "4">>,
                  outcomes |-> <<Ranged(<<"A", "l", "i", "v", "e">>, 1, 3),
                                 Ranged(<<"D", "e", "a", "d">>, 3, 4)>>]) @@
    (K_siblings :> [roll |-> Random,
                    outcomes |-> <<Row(Num(3), Undef, Undef, Undef, Undef),
                                   Plain(<<"3">>),
                                   Plain(<<"t", "w", "i", "n">>),
                                   Plain(<<"t", "w", "i", "n">>),
                                   Plain(Random),
                                   Row(Num(0), Undef, Undef, Undef, Undef),
                                   Plain(<<"n", "o", "n", "e">>)>>]) @@
    (K_ab :> [roll |-> Random,
              outcomes |-> <<Plain(<<"x">>),
                             Row(Str(<<"y">>), Undef, Undef,
                                 Str(<<"{", "{", "a", "}", "}", "{", "{", "b", "}", "}">>), Undef)>>]) @@
    (K_a :> [roll |-> Random,
             outcomes |-> <<Plain(<<"p">>), Plain(<<"{", "{", "b", "}", "}">>)>>]) @@
    (K_b :> [roll |-> Random, outcomes |-> <<Plain(<<"q">>)>>]) @@
    (K_mix :> [roll |-> Random,
               outcomes |-> <<Row(Str(<<"m">>), Undef, Undef,
                                  Str(<<"{", "{", "a", "}", "}", "-", "{", "{", "b", "}", "}">>), Undef),
                              Row(Str(<<"n">>), Undef, Undef,
                                  Str(<<"o", "k">>), Undef)>>])

(***************************************************************************)
(* State.                                                                  *)
(*   TABLES  the global Table Store                                        *)
(*   stack   the attributes under construction, outermost first; a single  *)
(*           frame at pc "done" is the attribute the outermost constructor *)
(*           is about to return to its caller                              *)
(*   err     the exception that ended the last construction, if any        *)
(***************************************************************************)
VARIABLES TABLES, stack, err

vars == <<TABLES, stack, err>>

NoErr == [kind |-> "none", dice |-> Undef, rollModifier |-> Undef, expr |-> Undef]

Upper == <<"A", "B", "C", "D", "E", "F", "G", "H", "I", "J", "K", "L", "M", "N", "O", "P", "Q", "R", "S", "T", "U", "V", "W", "X", "Y", "Z">>
Lowers == <<"a", "b", "c", "d", "e", "f", "g", "h", "i", "j", "k", "l", "m", "n", "o", "p", "q", "r", "s", "t", "u", "v", "w", "x", "y", "z">>
ToLowerCase(c) ==
    IF \E i \in 1..Len(Upper) : Upper[i] = c
    THEN Lowers[CHOOSE i \in 1..Len(Upper) : Upper[i] = c]
    ELSE c

\* static toKey(str): str.replace(/\s/g,'-').toLowerCase()
toKey(str) == [i \in 1..Len(str) |-> IF IsSpace(str[i]) THEN "-" ELSE ToLowerCase(str[i])]

\* A configuration object; an absent property is undefined.
Config(tableName, fetch, rollModifier) ==
    [tableName |-> tableName, fetch |-> fetch, rollModifier |-> rollModifier]

\* setConfig(config) followed by the config setter: a string is a table name,
\* an object's properties are copied onto the instance (tableName through its
\* setter, which normalises it).  Beside the instance's properties and the
\* locals of translateOutcome (template: its argument; outcome, matches, x),
\* a frame keeps a record of what happened: cls, the class instantiated;
\* options, what the caller passed; rolled, the expression roll() handed to
\* the Dice Roller; extraArg, the argument the extra function was called
\* with; subs, the keyword and the text of every substitution made.
setConfig(cls, options, config) ==
    [cls |-> cls, options |-> options,
     _tableName |-> IF config.tableName.t = "string"
                    THEN Str(toKey(config.tableName.s)) ELSE Undef,
     _fetch |-> config.fetch,
     rollModifier |-> config.rollModifier,
     rollResult |-> Undef,
     rolled |-> Undef,
     _data |-> Undef,
     pc |-> "generate",
     template |-> Undef, outcome |-> <<>>, matches |-> <<>>, x |-> 0,
     extraArg |-> Undef, subs |-> <<>>]

\* get fetch(): this._fetch || 'random'
fetch(f) == IF Truthy(f._fetch) THEN f._fetch ELSE Str(Random)

RECURSIVE ForEachFind(_, _, _, _)
\* outcomes.forEach from index i: `return result = outcome` ends one callback,
\* not the loop, so every later match overwrites result.
ForEachFind(outcomes, lookup, i, result) ==
    IF i > Len(outcomes) THEN result
    ELSE ForEachFind(outcomes, lookup, i + 1,
                     IF StrictEq(lookup, outcomes[i].outcome) THEN i ELSE result)

\* find without the conversion of numeric lookups to numbers.
find_noParseInt(table, lookup) == ForEachFind(table.outcomes, lookup, 1, 0)

\* find(lookup): the index of the row found, 0 for false.
find(table, lookup) ==
    ForEachFind(table.outcomes,
                IF ~IsNaNJS(lookup) THEN ParseIntJS(lookup) ELSE lookup, 1, 0)

RECURSIVE ForEachRange(_, _, _, _)
ForEachRange(outcomes, total, i, result) ==
    IF i > Len(outcomes) THEN result
    ELSE ForEachRange(outcomes, total, i + 1,
                      IF GeJS(total, outcomes[i].min) /\ LeJS(total, outcomes[i].max)
                      THEN i ELSE result)

\* The forEach of rollForRow(): the index of the row returned, 0 for false.
rollForRow(table, total) == ForEachRange(table.outcomes, Num(total), 1, 0)

\* roll(dice): the expression handed to Dice.roll.
roll(dice, rollModifier) ==
    IF rollModifier # False THEN ReplaceStr(dice, Mod, ToStringJS(rollModifier))
    ELSE dice

\* randomRow that keeps no rollResult.
randomRow_noRollResult(f, i) == f

\* randomRow(): the index Math.floor(Math.random() * length) is kept as
\* rollResult; i is that index.
randomRow(f, i) == [f EXCEPT !.rollResult = Num(i)]

\* this._data = data, without the copy: the instance holds the table's row.
ObjectAssign_noCopy(src, row) ==
    [t |-> "object", self |-> "table", src |-> src,
     outcome |-> row.outcome, min |-> row.min, max |-> row.max,
     translate |-> row.translate, extra |-> row.extra]

\* Object.assign({}, data): a fresh object with the row's own properties
\* ({} when data is false).  src is the index of the row copied, 0 for none.
ObjectAssign(src, row) ==
    [t |-> "object", self |-> "fresh", src |-> src,
     outcome |-> row.outcome, min |-> row.min, max |-> row.max,
     translate |-> row.translate, extra |-> row.extra]

NoRow == Row(Undef, Undef, Undef, Undef, Undef)

\* End of set data(): this._data.translate = <the translated string>.
Finish(f) == [f EXCEPT !._data.translate = Str(f.outcome), !.pc = "done"]

\* End of one iteration of the loop of translateOutcome.
Advance(f, replacement) ==
    LET g == [f EXCEPT !.outcome = ReplaceFirstMarker(f.outcome, replacement),
                       !.x = f.x + 1,
                       !.subs = Append(f.subs, [keyword |-> StripBraces(f.matches[f.x]),
                                                text |-> ToStringJS(replacement)])]
    IN  IF g.x > Len(g.matches) THEN Finish(g) ELSE g

\* set data(data), up to the first iteration of translateOutcome's loop.
SetData(f, key, src) ==
    LET row == IF src = 0 THEN NoRow ELSE TABLES[key].outcomes[src]
        g == [f EXCEPT !._data = ObjectAssign(src, row)]
        m == MatchMarkers(g._data.translate.s)
    IN  IF ~Truthy(g._data.translate) THEN [g EXCEPT !.pc = "done"]
        ELSE LET h == [g EXCEPT !.template = g._data.translate,
                                !.outcome = g._data.translate.s,
                                !.matches = m, !.x = 1, !.pc = "translate"]
             IN  IF m = <<>> THEN Finish(h) ELSE h

\* The Table Store after frame f reached "done": the translated string is
\* written into this._data, which is the table's row only if it is no copy.
StoreAfter(tables, f) ==
    IF /\ f.pc = "done" /\ f.template # Undef
       /\ f._data.self = "table" /\ f._data.src # 0
    THEN [tables EXCEPT ![f._tableName.s].outcomes[f._data.src].translate
                            = f._data.translate]
    ELSE tables

\* toString()
toString(f) == IF Truthy(f._data.translate) THEN f._data.translate ELSE f._data.outcome

\* The row's extra-text function applied to its argument.
ExtraFn(fn, arg) == Num(Len(arg))

Throw(e) == /\ stack' = <<>>
            /\ err' = e
            /\ UNCHANGED TABLES

Put(f, below) == /\ stack' = below \o <<f>>
                 /\ TABLES' = StoreAfter(TABLES, f)
                 /\ err' = NoErr

Error(kind) == [NoErr EXCEPT !.kind = kind]

\* generate(), called by the constructor on the frame f that setConfig made,
\* with the frames `below` waiting for it.
generate(f, below) ==
    IF f._tableName = Undef \/ f._tableName.s \notin DOMAIN TABLES
    THEN Throw(Error("TypeError"))  \* this.table is undefined
    ELSE LET key == f._tableName.s
             table == TABLES[key]
         IN  IF ~StrictEq(fetch(f), Str(Random))
             THEN Put(SetData(f, key, find(table, fetch(f))), below)
             ELSE IF table.roll = Random
             THEN \E i \in 0..(Len(table.outcomes) - 1) :
                     Put(SetData(randomRow(f, i), key, i + 1), below)
             ELSE LET e == roll(table.roll, f.rollModifier)
                  IN  IF ~DiceValid(e)
                      THEN Throw([kind |-> "InvalidExpression", dice |-> Str(table.roll),
                                  rollModifier |-> f.rollModifier, expr |-> Str(e)])
                      ELSE \E total \in DiceTotals(e) :
                              Put(SetData([f EXCEPT !.rollResult = DiceRollResult(total),
                                                    !.rolled = Str(e)],
                                          key, rollForRow(table, total)), below)

(***************************************************************************)
(* Inputs.                                                                 *)
(***************************************************************************)
TableNames == <<K_race, K_raceFull, K_lifeEvents, K_relationship, K_background,
                K_memory, K_status, K_siblings, K_ab, K_a, K_b, K_mix,
                <<"L", "i", "f", "e", " ", "E", "v", "e", "n", "t", "s">>, <<"z", "z">>>>

FetchValues == <<Undef, Str(Random), Str(<<"r", "a", "n", "d", "o", "m", "-", "f", "u", "l", "l">>),
                 Num(3), Str(<<"3">>), Num(0), Str(<<"0">>),
                 Str(<<"t", "w", "i", "n">>), Str(<<"n", "o", "n", "e">>),
                 Str(<<"O", "r", "c">>), Str(<<"w", "o", "n">>),
                 Str(<<"y">>)>>

Modifiers == [i \in 1..(2 * MaxMod + 1) |-> Num(i - MaxMod - 1)] \o <<Undef, False>>

\* No construction is running: the caller may start one.
Idle == stack = <<>>

(***************************************************************************)
(* Operations.                                                             *)
(***************************************************************************)
\* new CharacterAttribute("<table name>")
NewByName ==
    /\ Idle
    /\ \E n \in 1..Len(TableNames) :
          LET c == Config(Str(TableNames[n]), Undef, Undef)
          IN  generate(setConfig("CharacterAttribute", c, c), <<>>)

\* new CharacterAttribute({tableName, fetch, rollModifier})
NewByConfig ==
    /\ Idle
    /\ \E n \in 1..Len(TableNames), v \in 1..Len(FetchValues), m \in 1..Len(Modifiers) :
          LET c == Config(Str(TableNames[n]), FetchValues[v], Modifiers[m])
          IN  generate(setConfig("CharacterAttribute", c, c), <<>>)

\* The constructor of Race, up to super(options).
RaceOptions(options) ==
    LET o == [options EXCEPT !.tableName = Str(K_race)]
    IN  IF ~StrictEq(o.fetch, Str(Random))
        THEN [o EXCEPT !.tableName = Str(K_raceFull),
                       !.fetch = IF StrictEq(o.fetch, Str(<<"r", "a", "n", "d", "o", "m", "-", "f", "u", "l", "l">>))
                                 THEN Str(Random) ELSE o.fetch]
        ELSE o

\* new Race(options); new Race() is the options object without properties.
NewRace ==
    /\ Idle
    /\ \E v \in 1..Len(FetchValues), m \in 1..Len(Modifiers) :
          LET o == Config(Undef, FetchValues[v], Modifiers[m])
          IN  generate(setConfig("Race", o, RaceOptions(o)), <<>>)

\* new LifeEvent()
NewLifeEvent ==
    /\ Idle
    /\ LET c == Config(Str(K_lifeEvents), Undef, Undef)
       IN  generate(setConfig("LifeEvent", c, c), <<>>)

\* new Relationship()
NewRelationship ==
    /\ Idle
    /\ LET c == Config(Str(K_relationship), Undef, Undef)
       IN  generate(setConfig("Relationship", c, c), <<>>)

Top == stack[Len(stack)]
Below == SubSeq(stack, 1, Len(stack) - 1)
Translating == stack # <<>> /\ Top.pc = "translate"
\* The keyword of the current iteration of translateOutcome's loop.
Keyword(f) == StripBraces(f.matches[f.x])

\* translateOutcome, keyword is a table: new CharacterAttribute(match).  The
\* engine's call stack is exhausted at MaxDepth nested constructions.
TranslateTable ==
    /\ Translating
    /\ Keyword(Top) \in DOMAIN TABLES
    /\ IF Len(stack) >= MaxDepth THEN Throw(Error("RangeError"))
       ELSE LET c == Config(Str(Keyword(Top)), Undef, Undef)
            IN  generate(setConfig("CharacterAttribute", c, c), stack)

\* translateOutcome, keyword is extra and the row has an extra function.
TranslateExtra ==
    /\ Translating
    /\ Keyword(Top) \notin DOMAIN TABLES
    /\ Keyword(Top) = Extra /\ Truthy(Top._data.extra)
    /\ Put(Advance([Top EXCEPT !.extraArg = Str(Top.outcome)],
                   ExtraFn(Top._data.extra, Top.outcome)), Below)

\* translateOutcome, otherwise: Dice.roll(match).get('total').
TranslateDice ==
    /\ Translating
    /\ Keyword(Top) \notin DOMAIN TABLES
    /\ ~(Keyword(Top) = Extra /\ Truthy(Top._data.extra))
    /\ IF ~DiceValid(Keyword(Top))
       THEN Throw([Error("InvalidExpression") EXCEPT !.expr = Str(Keyword(Top))])
       ELSE \E total \in DiceTotals(Keyword(Top)) : Put(Advance(Top, Num(total)), Below)

\* The nested constructor returns: replacement = table.toString(), and the
\* caller's loop goes on.
Return ==
    /\ Len(stack) >= 2
    /\ Top.pc = "done"
    /\ Put(Advance(stack[Len(stack) - 1], toString(Top)),
           SubSeq(stack, 1, Len(stack) - 2))

\* The outermost constructor returns the attribute to its caller.
Done ==
    /\ Len(stack) = 1
    /\ Top.pc = "done"
    /\ stack' = <<>>
    /\ UNCHANGED <<TABLES, err>>

Init ==
    /\ TABLES = TableStore
    /\ stack = <<>>
    /\ err = NoErr

Next ==
    \/ NewByName
    \/ NewByConfig
    \/ NewRace
    \/ NewLifeEvent
    \/ NewRelationship
    \/ TranslateTable
    \/ TranslateExtra
    \/ TranslateDice
    \/ Return
    \/ Done

Spec == Init /\ [][Next]_vars

(***************************************************************************)
(* Properties.                                                             *)
(***************************************************************************)
Frames == 1..Len(stack)
\* The table a frame resolves from (frames exist only for known tables).
TableOf(f) == TABLES[f._tableName.s]
InRange(row, total) == GeJS(Num(total), row.min) /\ LeJS(Num(total), row.max)
Rolled(f) == f.rollResult.t = "DiceRollResult"

\* C1: for a dice-ranged table, rollForRow returns the FIRST row, in table
\* order, whose inclusive [min,max] range contains the roll total, also when
\* the ranges of several rows contain it.
C1_FirstRowInRange ==
    \A i \in Frames :
        LET f == stack[i]
            rows == TableOf(f).outcomes
        IN  Rolled(f) =>
                \A r \in 1..Len(rows) :
                    (/\ InRange(rows[r], f.rollResult.total)
                     /\ \A q \in 1..(r - 1) : ~InRange(rows[q], f.rollResult.total))
                    => f._data.src = r

\* C2: when selection matches no row (a dice total outside every range, or
\* an explicit fetch value equal to no row's outcome), the failure surfaces:
\* no attribute is ever constructed holding an empty resolved row.
C2_RowNotFoundSurfaces ==
    \A i \in Frames : stack[i]._data.src # 0

\* Whether dice is <count>d<faces>+MOD.
IsModExpression(dice) ==
    /\ Len(dice) > Len(Mod)
    /\ SubSeq(dice, Len(dice) - Len(Mod) + 1, Len(dice)) = Mod
    /\ dice[Len(dice) - Len(Mod)] = "+"
    /\ DiceValid(SubSeq(dice, 1, Len(dice) - Len(Mod) - 1))

HandedOk(dice, rollModifier, expr) ==
    (IsModExpression(dice) /\ rollModifier.t = "number")
    => (DiceValid(expr) /\ DiceModifier(expr) = rollModifier.n)

\* C4: for every integer rollModifier m and table expression
\* <count>d<faces>+MOD, the expression handed to the Dice Roller is valid for
\* the grammar <count>d<faces>[+|-<modifier>] and its signed modifier is m.
C4_ModifierExpression ==
    /\ \A i \in Frames :
          stack[i].rolled # Undef
          => HandedOk(TableOf(stack[i]).roll, stack[i].rollModifier, stack[i].rolled.s)
    /\ err.dice # Undef => HandedOk(err.dice.s, err.rollModifier, err.expr.s)

\* C6: the extra-text function is invoked with the ORIGINAL template of the
\* row, however many markers precede the extra marker.
C6_ExtraGetsOriginalTemplate ==
    \A i \in Frames : stack[i].extraArg # Undef => stack[i].extraArg = stack[i].template

\* C10: the fetch mode defaults to "random": Race constructed with no fetch
\* option draws from the table "race", as Race({fetch: "random"}) does.
C10_RaceDefaultsToRandom ==
    \A i \in Frames :
        (stack[i].cls = "Race" /\ ~Truthy(stack[i].options.fetch))
        => stack[i]._tableName = Str(K_race)

\* Row r is the only row of rows with its outcome value.
UniqueOutcome(rows, r) ==
    \A q \in 1..Len(rows) : q # r => rows[q].outcome # rows[r].outcome

\* v is outcome o itself, or the string form of the number o.
IsOutcome(v, o) ==
    \/ v = o
    \/ o.t = "number" /\ v = Str(IntToStr(o.n))

NamesOutcome(v, o) ==
    \/ o.t = "number" /\ v = o /\ o.n # 0
    \/ o.t = "number" /\ v = Str(IntToStr(o.n))
    \/ o.t = "string" /\ v = o /\ IsNaNJS(o) /\ o.s # Random

RECURSIVE MarkersFrom(_, _)
MarkersFrom(s, i) ==
    IF i > Len(s) THEN <<>>
    ELSE IF MarkerEnd(s, i) # 0
         THEN <<[from |-> i, to |-> MarkerEnd(s, i)]>> \o MarkersFrom(s, MarkerEnd(s, i) + 1)
    ELSE MarkersFrom(s, i + 1)

InnerKeyword(s, m) == SubSeq(s, m.from + 2, m.to - 2)

\* s with its k-th and later markers ms replaced by texts, from position pos.
RECURSIVE Substituted(_, _, _, _, _)
Substituted(s, ms, texts, k, pos) ==
    IF k > Len(ms) THEN SubSeq(s, pos, Len(s))
    ELSE SubSeq(s, pos, ms[k].from - 1) \o texts[k].text
            \o Substituted(s, ms, texts, k + 1, ms[k].to + 1)

\* C5: for a template with n >= 0 non-overlapping markers, translateOutcome
\* makes n substitutions, the i-th resolving the i-th marker's own inner
\* keyword and replacing that marker, and leaves all other text unchanged
\* (also for adjacent markers and for substituted text that holds a marker).
C5_EveryMarkerReplacedInPlace ==
    \A i \in Frames :
        LET f == stack[i]
            ms == MarkersFrom(f.template.s, 1)
        IN  (f.pc = "done" /\ f.template # Undef)
            => /\ Len(f.subs) = Len(ms)
               /\ \A k \in 1..Len(ms) : f.subs[k].keyword = InnerKeyword(f.template.s, ms[k])
               /\ f._data.translate.s = Substituted(f.template.s, ms, f.subs, 1, 1)

C8_TableStoreReadOnly ==
    /\ TABLES = TableStore
    /\ \A i \in Frames :
          LET f == stack[i]
              row == TableStore[f._tableName.s].outcomes[f._data.src]
          IN  f._data.src # 0
              => /\ f._data.outcome = row.outcome
                 /\ f._data.min = row.min /\ f._data.max = row.max
                 /\ f._data.extra = row.extra
                 /\ f.template = row.translate

\* Two attributes resolved from the same row are held at once, the later one
\* finished with an expansion that differs from the template.
C8_Witness ==
    \E i \in Frames : \E j \in Frames :
        /\ i < j
        /\ stack[i]._tableName = stack[j]._tableName
        /\ stack[i]._data.src = stack[j]._data.src
        /\ stack[j].pc = "done"
        /\ stack[j].template # Undef
        /\ stack[j]._data.translate # stack[j].template
        /\ stack[i].template = stack[j].template

\* The placeholder reference graph: T -> U when a row of T has a translate
\* template with a marker {{U}}, U a table.
Refers(tables, T, U) ==
    \E r \in 1..Len(tables[T].outcomes) :
        LET tr == tables[T].outcomes[r].translate
        IN  /\ tr.t = "string"
            /\ \E k \in 1..Len(MarkersFrom(tr.s, 1)) :
                  InnerKeyword(tr.s, MarkersFrom(tr.s, 1)[k]) = U

RefEdges(tables) ==
    {e \in (DOMAIN tables) \X (DOMAIN tables) : Refers(tables, e[1], e[2])}

Max(S) == CHOOSE x \in S : \A y \in S : y <= x

\* Edges of the longest chain of edges from T that has at most fuel edges.
RECURSIVE ChainFrom(_, _, _)
ChainFrom(edges, T, fuel) ==
    IF fuel = 0 THEN 0
    ELSE Max({0} \cup {1 + ChainFrom(edges, e[2], fuel - 1) :
                        e \in {d \in edges : d[1] = T}})

LongestChain(tables) ==
    LET edges == RefEdges(tables)
    IN  Max({ChainFrom(edges, T, Cardinality(DOMAIN tables)) : T \in DOMAIN tables})

\* A graph of n nodes is acyclic iff no chain has n edges.
Acyclic(tables) == LongestChain(tables) < Cardinality(DOMAIN tables)

\* The reference graph of the store as loaded.
StoreAcyclic == Acyclic(TableStore)
StoreLongestChain == LongestChain(TableStore)

\* C9: if the placeholder reference graph is acyclic, every construction
\* terminates (the call stack is never exhausted) with the nesting depth of
\* sub-attribute constructions at most the length of the longest chain.
C9_AcyclicBoundsDepth ==
    (TABLES = TableStore /\ StoreAcyclic)
    => /\ Len(stack) - 1 <= StoreLongestChain
       /\ err.kind # "RangeError"

=============================================================================
